---- MODULE Spec2Model ----
(***************************************************************************)
(* World Spark globe engine: the gesture-to-camera mapper, the pointer     *)
(* pickers of the Sparks and GlobeSphere components, and the instanced     *)
(* spark registry with its per-frame frustum culling (components/Globe.tsx *)
(* and the helpers of tests/property/globe.test.ts).                       *)
(*                                                                         *)
(* Numbers are fixed-point integers, so every sum and product below is     *)
(* exact: a distance, a delta and a speed are whole units; a rotation      *)
(* angle is stored in units of 1/RotScale radian.                          *)
(***************************************************************************)
EXTENDS Integers, Sequences, FiniteSets, TLC

VARIABLES
    \* ---- gesture-to-camera mapper (CameraState of the pure helpers)
    rotation,       \* <<rotX, rotY, rotZ>>: pitch, yaw, roll
    distance,       \* camera distance
    minDistance,    \* lower zoom bound handed to the zoom helpers
    maxDistance,    \* upper zoom bound handed to the zoom helpers
    initRoll,       \* roll at construction (history)
    last,           \* the latest mapper call: its arguments and the state before it
    reversal,       \* TRUE iff the latest call undid the call before it, unclamped
    \* ---- pickers (Sparks and GlobeSphere pointer handlers)
    sparkDataRef,   \* Sparks.sparkDataRef.current: the sparks by instance id
    hasOnSparkClick,\* the onSparkClick prop is supplied
    hasOnClick,     \* GlobeSphere's onClick prop is supplied
    startPosRef,    \* Sparks.startPosRef.current
    isDraggingRef,  \* Sparks.isDraggingRef.current
    startPos,       \* GlobeSphere.startPos.current
    isDragging,     \* GlobeSphere.isDragging.current
    pointer,        \* the interaction in progress: where it went down, on which mesh
    sparkClicks,    \* the onSparkClick calls of the latest pointer event
    globeClicks,    \* the onClick calls of the latest pointer event
    lastUp,         \* the latest pointer-up: position, hit, and the down it ended
    \* ---- instance registry (Sparks component and its instanced mesh)
    sparks,         \* the sparks prop: a sequence of <<latitude, longitude>>
    positions,      \* the memoised positions array
    meshRef,        \* meshRef.current: no mesh, or the mounted mesh and its count
    instanceMatrix, \* the mounted mesh's instance transforms
    needsUpdate,    \* instanceMatrix.needsUpdate
    hoveredIndex,   \* hovered instance id, or NoIndex
    camera,         \* the three.js camera: [dir, dist]
    frustum,        \* the memoised Frustum object: the camera it was last set from
    clock,          \* state.clock elapsed time of the latest frame
    written,        \* indices passed to setMatrixAt by the latest render or frame
    phase,          \* what ran last in the registry: "init", "render", "frame", ...
    \* ---- projection (latLngToVector3 and the globe-click inverse)
    projCall,       \* the latest latLngToVector3 call: its arguments and its result
    projPrev,       \* the call before it
    clicked,        \* what a click on the projected point hands to onClick
    \* ---- rate limiter (RateLimiter of lib/rate-limiter.ts)
    now,            \* Date.now(), in ticks of 500 ms
    store,          \* RateLimiter.store: for each IP its entry, or no entry
    lastCall,       \* the latest limiter call: operation, IP, time, result, entry before
    windowCalls,    \* per IP: check calls made since its current window started
    lastBlocked,    \* per IP: whether its latest check was refused, and when
    allowedAt,      \* per IP: times of its allowed checks of the last windowMs
    soloStore,      \* per IP: its entry had the calls for the other IPs not been made
    \* ---- spark service and the /api/sparks route
    db,             \* the spark table: a sequence of rows, a row's id is its index
    reply,          \* the latest service result or HTTP response
    inflight,       \* per IP: POST handlers past the rate-limit check, not yet answered
    passes,         \* per IP: POST handlers that have passed the rate-limit check
    createdBy,      \* per IP: rows made by its POST handlers
    \* ---- home page (Home of app/page.tsx)
    selectedSpark,  \* the spark of the card, or NoSpark
    showForm,       \* whether the submission form is displayed
    globeClickLocation, \* the location handed to the form, or NoLocation
    nextRequests,   \* 'Next spark' fetches that have not been answered yet
    closed,         \* the card was closed or replaced and no spark clicked since
    lastHome,       \* the latest thing that happened on the home page
    \* ---- admin panel (AdminPage of app/admin/page.tsx)
    adminSparks,    \* the sparks state: the ids of the displayed list
    actions         \* per spark: its latest single action, and that action's snapshot

camVars == <<rotation, distance, minDistance, maxDistance, initRoll, last, reversal>>
pickVars == <<sparkDataRef, hasOnSparkClick, hasOnClick, startPosRef, isDraggingRef,
              startPos, isDragging, pointer, sparkClicks, globeClicks, lastUp>>
regVars == <<sparks, positions, meshRef, instanceMatrix, needsUpdate, hoveredIndex,
             camera, frustum, clock, written, phase>>
projVars == <<projCall, projPrev, clicked>>
limVars == <<now, store, lastCall, windowCalls, lastBlocked, allowedAt, soloStore>>
svcVars == <<db, reply, inflight, passes, createdBy>>
homeVars == <<selectedSpark, showForm, globeClickLocation, nextRequests, closed, lastHome>>
adminVars == <<adminSparks, actions>>
pageVars == <<homeVars, adminVars>>
vars == <<camVars, pickVars, regVars, projVars, limVars, svcVars, pageVars>>

Max(a, b) == IF a >= b THEN a ELSE b
Min(a, b) == IF a <= b THEN a ELSE b

(***************************************************************************)
(* Gesture-to-camera mapper                                                *)
(***************************************************************************)

\* Bounds of the mapper's state space.
MaxRot == 1
MaxDist == 4

\* 0.01 rad per pixel and speed unit: one rotation unit is 1/RotScale rad.
RotScale == 100

Angles == -MaxRot..MaxRot
Rolls == {0, 1}
Distances == 0..MaxDist
DistanceBounds == 1..(MaxDist - 1)
Deltas == {-1, 0, 1}
RotateSpeeds == {1, 2}
ZoomSpeeds == {0, 1, 2}

\* x * 0.01 in rotation units
Hundredth(x) == (x * RotScale) \div 100

updateRotationFromTouchSwapped(currentRotation, touchDelta, rotateSpeed) ==
    LET rotX == currentRotation[1]
        rotY == currentRotation[2]
        rotZ == currentRotation[3]
        deltaX == touchDelta[1]
        deltaY == touchDelta[2]
        newRotY == rotY + Hundredth(deltaY * rotateSpeed)
        newRotX == rotX + Hundredth(deltaX * rotateSpeed)
    IN  <<newRotX, newRotY, rotZ>>

updateRotationFromTouchRolling(currentRotation, touchDelta, rotateSpeed) ==
    LET rotX == currentRotation[1]
        rotY == currentRotation[2]
        rotZ == currentRotation[3]
        deltaX == touchDelta[1]
        deltaY == touchDelta[2]
        newRotY == rotY + Hundredth(deltaX * rotateSpeed)
        newRotX == rotX + Hundredth(deltaY * rotateSpeed)
    IN  <<newRotX, newRotY, rotZ + Hundredth(deltaX * rotateSpeed)>>

updateRotationFromTouch(currentRotation, touchDelta, rotateSpeed) ==
    LET rotX == currentRotation[1]
        rotY == currentRotation[2]
        rotZ == currentRotation[3]
        deltaX == touchDelta[1]
        deltaY == touchDelta[2]
        newRotY == rotY + Hundredth(deltaX * rotateSpeed)
        newRotX == rotX + Hundredth(deltaY * rotateSpeed)
    IN  <<newRotX, newRotY, rotZ>>

updateRotationFromDrag(currentRotation, dragDelta, rotateSpeed) ==
    LET rotX == currentRotation[1]
        rotY == currentRotation[2]
        rotZ == currentRotation[3]
        deltaX == dragDelta[1]
        deltaY == dragDelta[2]
        newRotY == rotY + Hundredth(deltaX * rotateSpeed)
        newRotX == rotX + Hundredth(deltaY * rotateSpeed)
    IN  <<newRotX, newRotY, rotZ>>

updateCameraDistanceFromPinchNoFloor(currentDistance, pinchDelta, zoomSpeed, minDist, maxDist) ==
    LET newDistance == currentDistance - pinchDelta * zoomSpeed
    IN  Min(maxDist, newDistance)

updateCameraDistanceFromPinchScrollSign(currentDistance, pinchDelta, zoomSpeed, minDist, maxDist) ==
    LET newDistance == currentDistance + pinchDelta * zoomSpeed
    IN  Max(minDist, Min(maxDist, newDistance))

updateCameraDistanceFromPinchTightMax(currentDistance, pinchDelta, zoomSpeed, minDist, maxDist) ==
    LET newDistance == currentDistance - pinchDelta * zoomSpeed
    IN  Max(minDist, Min(maxDist - 1, newDistance))

updateCameraDistanceFromPinchHalved(currentDistance, pinchDelta, zoomSpeed, minDist, maxDist) ==
    LET newDistance == currentDistance - (pinchDelta * zoomSpeed) \div 2
    IN  Max(minDist, Min(maxDist, newDistance))

updateCameraDistanceFromPinch(currentDistance, pinchDelta, zoomSpeed, minDist, maxDist) ==
    LET newDistance == currentDistance - pinchDelta * zoomSpeed
    IN  Max(minDist, Min(maxDist, newDistance))

updateCameraDistanceFromZoom(currentDistance, zoomDelta, zoomSpeed, minDist, maxDist) ==
    LET newDistance == currentDistance + zoomDelta * zoomSpeed
    IN  Max(minDist, Min(maxDist, newDistance))

NoCall == [kind |-> "none", delta |-> <<0, 0>>, speed |-> 0,
           rotBefore |-> <<0, 0, 0>>, distBefore |-> 0, raw |-> 0]

IsRotation(c) == c.kind \in {"touch", "drag"}
IsZoom(c) == c.kind \in {"pinch", "scroll"}
InBounds(d) == minDistance <= d /\ d <= maxDistance

\* The call c undoes the call p before it: the same helper, the same speed, the
\* negated delta, and (for a zoom) no bound hit in either call.
Reverses(c, p) ==
    /\ c.kind = p.kind
    /\ c.kind # "none"
    /\ c.speed = p.speed
    /\ c.delta = <<-p.delta[1], -p.delta[2]>>
    /\ IsZoom(c) => InBounds(p.distBefore) /\ InBounds(p.raw) /\ InBounds(c.raw)

InitCamera ==
    /\ rotation \in Angles \X Angles \X Rolls
    /\ distance \in Distances
    /\ minDistance \in DistanceBounds
    /\ maxDistance \in DistanceBounds
    /\ initRoll = rotation[3]
    /\ last = NoCall
    /\ reversal = FALSE

RotationCall(kind, delta, speed, result) ==
    /\ result[1] \in Angles
    /\ result[2] \in Angles
    /\ rotation' = result
    /\ last' = [kind |-> kind, delta |-> delta, speed |-> speed,
                rotBefore |-> rotation, distBefore |-> distance, raw |-> 0]
    /\ reversal' = Reverses(last', last)
    /\ UNCHANGED <<distance, minDistance, maxDistance, initRoll>>

ZoomCall(kind, delta, speed, raw, result) ==
    /\ distance' = result
    /\ last' = [kind |-> kind, delta |-> <<delta, 0>>, speed |-> speed,
                rotBefore |-> rotation, distBefore |-> distance, raw |-> raw]
    /\ reversal' = Reverses(last', last)
    /\ UNCHANGED <<rotation, minDistance, maxDistance, initRoll>>

TouchDrag ==
    \E dx \in Deltas, dy \in Deltas, s \in RotateSpeeds :
        RotationCall("touch", <<dx, dy>>, s,
                     updateRotationFromTouch(rotation, <<dx, dy>>, s))

MouseDrag ==
    \E dx \in Deltas, dy \in Deltas, s \in RotateSpeeds :
        RotationCall("drag", <<dx, dy>>, s,
                     updateRotationFromDrag(rotation, <<dx, dy>>, s))

Pinch ==
    \E d \in Deltas, s \in ZoomSpeeds :
        ZoomCall("pinch", d, s, distance - d * s,
                 updateCameraDistanceFromPinch(distance, d, s, minDistance, maxDistance))

Scroll ==
    \E d \in Deltas, s \in ZoomSpeeds :
        ZoomCall("scroll", d, s, distance + d * s,
                 updateCameraDistanceFromZoom(distance, d, s, minDistance, maxDistance))

(***************************************************************************)
(* Pickers: the pointer handlers of Sparks and GlobeSphere                 *)
(***************************************************************************)

\* Most sparks handed to the Sparks component.
MaxSparks == 2

\* "If moved more than 5 pixels, consider it a drag"
DragThreshold == 5

\* Radius of the globe sphere geometry, in units of 0.01.
SphereRadius == 200

Undefined == -1
InstanceIds == 0..(MaxSparks - 1)
ScreenPositions == {<<0, 0>>, <<3, 4>>, <<6, 0>>}
SpherePoints == {<<0, SphereRadius, 0>>, <<SphereRadius, 0, 0>>}
Pickers == {"sparks", "sphere"}

\* What the ray of a pointer event meets, nearest first: a spark in front of the
\* sphere (whose handler stops the propagation), the sphere alone, the sphere
\* and then a spark behind it, or nothing.
Hits ==
    [on : {"spark"}, instanceId : InstanceIds \cup {Undefined}, point : {<<0, 0, 0>>}]
    \cup [on : {"sphere"}, instanceId : {Undefined}, point : SpherePoints]
    \cup [on : {"both"}, instanceId : InstanceIds, point : SpherePoints]
    \cup [on : {"none"}, instanceId : {Undefined}, point : {<<0, 0, 0>>}]

ReachesSparks(hit) == hit.on \in {"spark", "both"}
ReachesSphere(hit) == hit.on \in {"sphere", "both"}

Abs(x) == IF x < 0 THEN -x ELSE x

\* Math.sqrt(x*x + y*y + z*z): exact on the axis points the model uses, the
\* floor otherwise.
Length(v) ==
    LET n == v[1] * v[1] + v[2] * v[2] + v[3] * v[3]
    IN  CHOOSE r \in 0..(Abs(v[1]) + Abs(v[2]) + Abs(v[3])) :
            r * r <= n /\ (r + 1) * (r + 1) > n

IsDragInclusive(start, clientPos) ==
    LET dx == clientPos[1] - start[1]
        dy == clientPos[2] - start[2]
    IN  dx * dx + dy * dy >= DragThreshold * DragThreshold

\* distance = Math.sqrt(dx * dx + dy * dy); distance > 5.  For whole pixels the
\* root exceeds 5 exactly when the sum of squares exceeds 25.
IsDrag(start, clientPos) ==
    LET dx == clientPos[1] - start[1]
        dy == clientPos[2] - start[2]
    IN  dx * dx + dy * dy > DragThreshold * DragThreshold

\* Math.acos(q) * (180 / Math.PI) for q = num / den in {-1, 0, 1}
AcosDeg(num, den) ==
    CASE num = den -> 0
      [] num = 0 -> 90
      [] num = -den -> 180

\* Math.atan2(z, -x) * (180 / Math.PI) on the axes; at x = 0 the second argument
\* is the negative zero, for which atan2(0, -0) is pi.
Atan2NegDeg(z, x) ==
    CASE z = 0 /\ x < 0 -> 0
      [] z > 0 /\ x = 0 -> 90
      [] z = 0 /\ x >= 0 -> 180
      [] z < 0 /\ x = 0 -> -90

RECURSIVE NormalizeLng(_)
NormalizeLng(lng) ==
    IF lng <= -180 THEN NormalizeLng(lng + 360)
    ELSE IF lng > 180 THEN NormalizeLng(lng - 360)
    ELSE lng

PointToLatLngNoShift(point) ==
    LET radius == Length(point)
        lat == 90 - AcosDeg(point[2], radius)
        lng == Atan2NegDeg(point[3], point[1])
    IN  [lat |-> lat, lng |-> NormalizeLng(lng)]

\* The coordinates GlobeSphere hands to onClick for the intersection point.
PointToLatLng(point) ==
    LET radius == Length(point)
        lat == 90 - AcosDeg(point[2], radius)
        lng == Atan2NegDeg(point[3], point[1]) - 180
    IN  [lat |-> lat, lng |-> NormalizeLng(lng)]

NoUp == [pos |-> <<0, 0>>, hit |-> [on |-> "none", instanceId |-> Undefined,
                                    point |-> <<0, 0, 0>>], seen |-> FALSE]

InitPicker ==
    /\ \E n \in 1..MaxSparks : sparkDataRef = [i \in 1..n |-> 100 + i]
    /\ hasOnSparkClick \in BOOLEAN
    /\ hasOnClick \in BOOLEAN
    /\ startPosRef = <<0, 0>>
    /\ isDraggingRef = FALSE
    /\ startPos = <<0, 0>>
    /\ isDragging = FALSE
    /\ pointer = [isDown |-> FALSE, pos |-> <<0, 0>>, on |-> {}]
    /\ sparkClicks = <<>>
    /\ globeClicks = <<>>
    /\ lastUp = NoUp

\* Sparks.handlePointerDown
SparksPointerDown(clientPos) ==
    /\ isDraggingRef' = FALSE
    /\ startPosRef' = clientPos

\* Sparks.handlePointerUp
SparksPointerUp(clientPos, instanceId) ==
    /\ isDraggingRef' = IsDrag(startPosRef, clientPos)
    /\ sparkClicks' =
          IF /\ ~isDraggingRef'
             /\ instanceId # Undefined
             /\ hasOnSparkClick
             /\ (instanceId + 1) \in DOMAIN sparkDataRef
          THEN <<sparkDataRef[instanceId + 1]>>
          ELSE <<>>
    /\ UNCHANGED startPosRef

\* GlobeSphere.handlePointerDown
SpherePointerDown(clientPos) ==
    /\ isDragging' = FALSE
    /\ startPos' = clientPos

\* GlobeSphere.handlePointerUp
SpherePointerUp(clientPos, point) ==
    /\ isDragging' = IsDrag(startPos, clientPos)
    /\ globeClicks' =
          IF ~isDragging' /\ hasOnClick THEN <<PointToLatLng(point)>> ELSE <<>>
    /\ UNCHANGED startPos

\* A pointer goes down at clientPos: each mesh the ray meets runs its handler.
PointerDown ==
    \E clientPos \in ScreenPositions, hit \in Hits :
        /\ ~pointer.isDown
        /\ IF ReachesSparks(hit) THEN SparksPointerDown(clientPos)
           ELSE UNCHANGED <<isDraggingRef, startPosRef>>
        /\ IF ReachesSphere(hit) THEN SpherePointerDown(clientPos)
           ELSE UNCHANGED <<isDragging, startPos>>
        /\ pointer' = [isDown |-> TRUE, pos |-> clientPos,
                       on |-> (IF ReachesSparks(hit) THEN {"sparks"} ELSE {})
                              \cup (IF ReachesSphere(hit) THEN {"sphere"} ELSE {})]
        /\ sparkClicks' = <<>>
        /\ globeClicks' = <<>>
        /\ UNCHANGED <<sparkDataRef, hasOnSparkClick, hasOnClick, lastUp>>

\* The pointer is released at clientPos: each mesh the ray meets runs its handler.
PointerUp ==
    \E clientPos \in ScreenPositions, hit \in Hits :
        /\ pointer.isDown
        /\ IF ReachesSparks(hit) THEN SparksPointerUp(clientPos, hit.instanceId)
           ELSE /\ sparkClicks' = <<>>
                /\ UNCHANGED <<isDraggingRef, startPosRef>>
        /\ IF ReachesSphere(hit) THEN SpherePointerUp(clientPos, hit.point)
           ELSE /\ globeClicks' = <<>>
                /\ UNCHANGED <<isDragging, startPos>>
        /\ pointer' = [pointer EXCEPT !.isDown = FALSE]
        /\ lastUp' = [pos |-> clientPos, hit |-> hit, seen |-> TRUE]
        /\ UNCHANGED <<sparkDataRef, hasOnSparkClick, hasOnClick>>

(***************************************************************************)
(* Instance registry: the Sparks component, its instanced mesh and the     *)
(* per-frame update with frustum culling                                   *)
(***************************************************************************)

\* Latest elapsed time of the render clock, in steps of 0.05 s.
MaxTime == 2

\* globeRadius={2.02}, in units of 0.01
GlobeRadius == 202

\* The canvas camera: near: 0.1 and far: 1000 in units of 0.01, and
\* 1000 * tan(fov / 2) for fov: 40.
CameraNear == 10
CameraFar == 100000
TanHalfFovMilli == 364

NoIndex == -1
GeoPoints == {<<0, 0>>, <<0, -90>>, <<90, 0>>}
SparkLists == UNION {[1..n -> GeoPoints] : n \in 0..MaxSparks}

\* The camera on an axis, looking at the origin, at OrbitControls' minDistance
\* (2.5) or at the initial position (z = 8).
CameraDirs == {<<0, 0, 1>>, <<1, 0, 0>>}
CameraDistances == {250, 800}
Cameras == [dir : CameraDirs, dist : CameraDistances]

\* Math.sin and Math.cos of an angle given in degrees (the factor Math.PI / 180
\* is folded in), on the multiples of 90 degrees.
SinDeg(a) ==
    CASE a % 360 = 0 -> 0
      [] a % 360 = 90 -> 1
      [] a % 360 = 180 -> 0
      [] a % 360 = 270 -> -1

CosDeg(a) == SinDeg(a + 90)

latLngToVector3Flat(lat, lng, radius) ==
    LET phi == 90 - lat
        theta == lng + 180
        x == (-radius) * SinDeg(phi) * CosDeg(theta)
        y == radius * SinDeg(phi)
        z == radius * SinDeg(phi) * SinDeg(theta)
    IN  <<x, y, z>>

latLngToVector3Mirrored(lat, lng, radius) ==
    LET phi == 90 - lat
        theta == lng + 180
        x == (-radius) * SinDeg(phi) * CosDeg(theta)
        y == radius * CosDeg(phi)
        z == radius * SinDeg(phi) * Abs(SinDeg(theta))
    IN  <<x, y, z>>

latLngToVector3(lat, lng, radius) ==
    LET phi == 90 - lat
        theta == lng + 180
        x == (-radius) * SinDeg(phi) * CosDeg(theta)
        y == radius * CosDeg(phi)
        z == radius * SinDeg(phi) * SinDeg(theta)
    IN  <<x, y, z>>

\* positions = sparks.map(spark => latLngToVector3(...))
PositionsOf(list) ==
    [i \in 1..Len(list) |-> latLngToVector3(list[i][1], list[i][2], GlobeRadius)]

\* A new InstancedMesh holds the identity matrix for every instance.
Identity == [position |-> <<0, 0, 0>>, facing |-> "none", scale |-> 10 * 10000]

\* Math.sin(0.1 * k) in thousandths
SinTenthMilli(k) ==
    CASE k = 0 -> 0     [] k = 1 -> 100   [] k = 2 -> 199   [] k = 3 -> 296
      [] k = 4 -> 389   [] k = 5 -> 479   [] k = 6 -> 565   [] k = 7 -> 644
      [] k = 8 -> 717   [] k = 9 -> 783   [] k = 10 -> 841  [] k = 11 -> 891
      [] k = 12 -> 932  [] k = 13 -> 964  [] k = 14 -> 985  [] k = 15 -> 997

\* pulseScale = 1 + Math.sin(time * 2 + i * 0.1) * 0.3, in units of 1/10000;
\* time is in steps of 0.05 s, so time * 2 is a whole number of tenths.
PulseScaleLockstep(time, i) == 10000 + SinTenthMilli(time) * 3

PulseScale(time, i) == 10000 + SinTenthMilli(time + i) * 3

\* baseScale = i === hoveredIndex ? 1.5 : 1.0, in tenths
BaseScale(i, hovered) == IF i = hovered THEN 15 ELSE 10

\* The matrix the positions memo writes: position, lookAt(0, 0, 0), scale 1.
SetupTransform(position) ==
    [position |-> position, facing |-> "centre", scale |-> 10 * 10000]

\* The matrix useFrame writes for instance i (0-based) at the given time.
FrameTransform(position, i, time, hovered) ==
    [position |-> position, facing |-> "centre",
     scale |-> BaseScale(i, hovered) * PulseScale(time, i)]

Dot(u, v) == u[1] * v[1] + u[2] * v[2] + u[3] * v[3]

\* frustum.setFromProjectionMatrix(projection * view): the six planes are those
\* of the camera handed in (a square viewport).
FrustumFromStale(cam) == frustum

FrustumFrom(cam) == cam

\* frustum.containsPoint: in front of the near plane, before the far plane, and
\* between the left/right and the bottom/top planes.
ContainsPoint(f, p) ==
    LET depth == f.dist - Dot(p, f.dir)
        side == <<p[1] - Dot(p, f.dir) * f.dir[1],
                  p[2] - Dot(p, f.dir) * f.dir[2],
                  p[3] - Dot(p, f.dir) * f.dir[3]>>
    IN  /\ CameraNear <= depth
        /\ depth <= CameraFar
        /\ \A k \in 1..3 : Abs(side[k]) * 1000 <= TanHalfFovMilli * depth

\* meshRef.current: null, or the mounted mesh with its instance count
NoMesh == [mounted |-> FALSE, count |-> 0]
MeshOf(n) == [mounted |-> TRUE, count |-> n]

InitRegistry ==
    /\ sparks = <<>>
    /\ positions = <<>>
    /\ meshRef = NoMesh
    /\ instanceMatrix = <<>>
    /\ needsUpdate = FALSE
    /\ hoveredIndex = NoIndex
    /\ camera = [dir |-> <<0, 0, 1>>, dist |-> 800]
    /\ frustum = [dir |-> <<0, 0, 1>>, dist |-> 800]
    /\ clock = 0
    /\ written = {}
    /\ phase = "init"

\* The matrix-setup memo of a render: it writes to the mesh meshRef.current holds
\* while the component renders, that is the mesh of the previous commit.
SetupMatrices(newPositions) ==
    IF ~meshRef.mounted
    THEN instanceMatrix
    ELSE [i \in 1..meshRef.count |->
            IF i <= Len(newPositions) THEN SetupTransform(newPositions[i])
            ELSE instanceMatrix[i]]

\* The commit of <instancedMesh args={[undefined, undefined, sparks.length]}>:
\* a first mount, or a changed count, constructs a new mesh; the same count
\* keeps the mesh the memo has written to.
CommitMesh(count, setUp) ==
    IF meshRef.mounted /\ meshRef.count = count
    THEN setUp
    ELSE [i \in 1..count |-> Identity]

\* Sparks renders with a new sparks array.
Render ==
    \E newSparks \in SparkLists :
        /\ newSparks # sparks
        /\ sparks' = newSparks
        /\ positions' = PositionsOf(newSparks)
        /\ LET count == Len(newSparks)
               setUp == SetupMatrices(positions')
           IN  /\ instanceMatrix' = IF count = 0 THEN <<>> ELSE CommitMesh(count, setUp)
               /\ meshRef' = IF count = 0 THEN NoMesh ELSE MeshOf(count)
               /\ needsUpdate' = (meshRef.mounted /\ meshRef.count = count)
               /\ written' = IF meshRef.mounted /\ meshRef.count = count
                             THEN 1..count ELSE {}
        /\ phase' = "render"
        /\ UNCHANGED <<hoveredIndex, camera, frustum, clock>>

\* OrbitControls moves the camera.
Orbit ==
    \E cam \in Cameras :
        /\ cam # camera
        /\ camera' = cam
        /\ phase' = "orbit"
        /\ UNCHANGED <<sparks, positions, meshRef, instanceMatrix, needsUpdate,
                       hoveredIndex, frustum, clock, written>>

\* Sparks.handlePointerMove / handlePointerOut
Hover ==
    \E id \in InstanceIds \cup {NoIndex} :
        /\ meshRef.mounted
        /\ id # hoveredIndex
        /\ id # NoIndex => id < meshRef.count
        /\ hoveredIndex' = id
        /\ phase' = "hover"
        /\ UNCHANGED <<sparks, positions, meshRef, instanceMatrix, needsUpdate,
                       camera, frustum, clock, written>>

\* The useFrame callback of Sparks.
Frame ==
    \E time \in clock..MaxTime :
        /\ meshRef.mounted
        /\ clock' = time
        /\ frustum' = FrustumFrom(camera)
        /\ instanceMatrix' =
              [i \in 1..Len(instanceMatrix) |->
                  IF i <= Len(positions) /\ ContainsPoint(frustum', positions[i])
                  THEN FrameTransform(positions[i], i - 1, time, hoveredIndex)
                  ELSE instanceMatrix[i]]
        /\ written' = {i \in 1..Len(positions) : ContainsPoint(frustum', positions[i])}
        /\ needsUpdate' = TRUE
        /\ phase' = "frame"
        /\ UNCHANGED <<sparks, positions, meshRef, hoveredIndex, camera>>

(***************************************************************************)
(* Projection: latLngToVector3 and its inverse in GlobeSphere's click       *)
(***************************************************************************)

\* Latitude and longitude in degrees, on the grid where sine and cosine are
\* exact; a radius is in units of 0.01.
Latitudes == {-90, 0, 90}
Longitudes == {-180, -90, 0, 90, 180}
Radii == {1, SphereRadius, GlobeRadius}

NoProjection == [made |-> FALSE, lat |-> 0, lng |-> 0, radius |-> 1,
                 position |-> <<0, 0, 0>>]
NoClick == [seen |-> FALSE, lat |-> 0, lng |-> 0]

InitProjection ==
    /\ projCall = NoProjection
    /\ projPrev = NoProjection
    /\ clicked = NoClick

\* A call latLngToVector3(lat, lng, radius).
Project ==
    \E lat \in Latitudes, lng \in Longitudes, radius \in Radii :
        /\ projPrev' = projCall
        /\ projCall' = [made |-> TRUE, lat |-> lat, lng |-> lng, radius |-> radius,
                        position |-> latLngToVector3(lat, lng, radius)]
        /\ clicked' = NoClick

\* A click whose intersection point is the projected position: the handler
\* converts the point back to latitude and longitude.
ClickProjected ==
    /\ projCall.made
    /\ ~clicked.seen
    /\ clicked' = [seen |-> TRUE,
                   lat |-> PointToLatLng(projCall.position).lat,
                   lng |-> PointToLatLng(projCall.position).lng]
    /\ UNCHANGED <<projCall, projPrev>>

(***************************************************************************)
(* Rate limiter: RateLimiter (lib/rate-limiter.ts)                         *)
(***************************************************************************)

\* Latest instant of the clock, and the number of refused checks followed
\* per window.
MaxNow == 2
MaxBlocked == 1

\* new RateLimiter(5, windowMs): the window length in ticks of 500 ms.
MaxRequests == 5
WindowTicks == 2
TicksPerSecond == 2

Ips == {"1.1.1.1", "2.2.2.2"}
Times == 0..MaxNow

NoEntry == [present |-> FALSE, count |-> 0, resetTime |-> 0]
Entry(count, resetTime) == [present |-> TRUE, count |-> count, resetTime |-> resetTime]

\* Math.ceil(n / d) for n >= 0
CeilDiv(n, d) == (n + d - 1) \div d

\* The value check(ip) returns at time t.
CheckResult(st, ip, t) ==
    LET entry == st[ip]
    IN  IF ~entry.present THEN TRUE
        ELSE IF t >= entry.resetTime THEN TRUE
        ELSE IF entry.count >= MaxRequests THEN FALSE
        ELSE TRUE

CheckStoreForgetful(st, ip, t) ==
    LET entry == st[ip]
    IN  IF ~entry.present
        THEN [st EXCEPT ![ip] = Entry(1, t + WindowTicks)]
        ELSE IF t >= entry.resetTime
        THEN [j \in DOMAIN st |-> IF j = ip THEN Entry(1, t + WindowTicks) ELSE NoEntry]
        ELSE IF entry.count >= MaxRequests THEN st
        ELSE [st EXCEPT ![ip] = Entry(entry.count + 1, entry.resetTime)]

CheckStoreSliding(st, ip, t) ==
    LET entry == st[ip]
    IN  IF ~entry.present
        THEN [st EXCEPT ![ip] = Entry(1, t + WindowTicks)]
        ELSE IF t >= entry.resetTime
        THEN [st EXCEPT ![ip] = Entry(1, t + WindowTicks)]
        ELSE IF entry.count >= MaxRequests
        THEN [st EXCEPT ![ip] = Entry(entry.count, t + WindowTicks)]
        ELSE [st EXCEPT ![ip] = Entry(entry.count + 1, entry.resetTime)]

CheckStoreKeepCount(st, ip, t) ==
    LET entry == st[ip]
    IN  IF ~entry.present
        THEN [st EXCEPT ![ip] = Entry(1, t + WindowTicks)]
        ELSE IF t >= entry.resetTime
        THEN [st EXCEPT ![ip] = Entry(entry.count, t + WindowTicks)]
        ELSE IF entry.count >= MaxRequests THEN st
        ELSE [st EXCEPT ![ip] = Entry(entry.count + 1, entry.resetTime)]

\* A check whose increment is lost, as when the count is read before an await
\* and written after it.
CheckStoreUncounted(st, ip, t) ==
    LET entry == st[ip]
    IN  IF ~entry.present
        THEN [st EXCEPT ![ip] = Entry(1, t + WindowTicks)]
        ELSE IF t >= entry.resetTime
        THEN [st EXCEPT ![ip] = Entry(1, t + WindowTicks)]
        ELSE st

\* The store check(ip) leaves at time t.
CheckStore(st, ip, t) ==
    LET entry == st[ip]
    IN  IF ~entry.present
        THEN [st EXCEPT ![ip] = Entry(1, t + WindowTicks)]
        ELSE IF t >= entry.resetTime
        THEN [st EXCEPT ![ip] = Entry(1, t + WindowTicks)]
        ELSE IF entry.count >= MaxRequests THEN st
        ELSE [st EXCEPT ![ip] = Entry(entry.count + 1, entry.resetTime)]

getRemaining(st, ip, t) ==
    LET entry == st[ip]
    IN  IF ~entry.present \/ t >= entry.resetTime THEN MaxRequests
        ELSE Max(0, MaxRequests - entry.count)

\* Seconds until the reset: Math.ceil((entry.resetTime - now) / 1000)
getResetTime(st, ip, t) ==
    LET entry == st[ip]
    IN  IF ~entry.present \/ t >= entry.resetTime THEN 0
        ELSE CeilDiv(entry.resetTime - t, TicksPerSecond)

cleanup(st, t) ==
    [ip \in DOMAIN st |->
        IF st[ip].present /\ t >= st[ip].resetTime THEN NoEntry ELSE st[ip]]

\* The store of a limiter that has only seen the calls made for ip.
Solo(ip) == [j \in Ips |-> IF j = ip THEN soloStore[ip] ELSE NoEntry]

NoLimiterCall == [op |-> "none", ip |-> "none", at |-> 0, result |-> 0,
                  soloResult |-> 0, before |-> NoEntry,
                  blockedBefore |-> [seen |-> FALSE, at |-> 0]]

LimiterCall(op, ip, result, soloResult) ==
    [op |-> op, ip |-> ip, at |-> now, result |-> result,
     soloResult |-> soloResult, before |-> store[ip],
     blockedBefore |-> lastBlocked[ip]]

InitLimiter ==
    /\ now = 0
    /\ store = [ip \in Ips |-> NoEntry]
    /\ lastCall = NoLimiterCall
    /\ windowCalls = [ip \in Ips |-> 0]
    /\ lastBlocked = [ip \in Ips |-> [seen |-> FALSE, at |-> 0]]
    /\ allowedAt = [ip \in Ips |-> <<>>]
    /\ soloStore = [ip \in Ips |-> NoEntry]

\* Time passes; the record of allowed checks keeps the last windowMs only.
Tick ==
    /\ now < MaxNow
    /\ now' = now + 1
    /\ allowedAt' = [ip \in Ips |->
                        SelectSeq(allowedAt[ip], LAMBDA t : t > now' - WindowTicks)]
    /\ UNCHANGED <<store, lastCall, windowCalls, lastBlocked, soloStore>>

\* sparkRateLimiter.check(ip)
Check ==
    \E ip \in Ips :
        LET allowed == CheckResult(store, ip, now)
            fresh == ~store[ip].present \/ now >= store[ip].resetTime
        IN  /\ allowed \/ windowCalls[ip] < MaxRequests + MaxBlocked
            /\ store' = CheckStore(store, ip, now)
            /\ soloStore' = [soloStore EXCEPT ![ip] = CheckStore(Solo(ip), ip, now)[ip]]
            /\ lastCall' = LimiterCall("check", ip, allowed,
                                       CheckResult(Solo(ip), ip, now))
            /\ windowCalls' = [windowCalls EXCEPT
                                  ![ip] = IF fresh THEN 1 ELSE @ + 1]
            /\ lastBlocked' = [lastBlocked EXCEPT
                                  ![ip] = IF allowed THEN [seen |-> FALSE, at |-> 0]
                                          ELSE [seen |-> TRUE, at |-> now]]
            /\ allowedAt' = IF allowed
                            THEN [allowedAt EXCEPT ![ip] = Append(@, now)]
                            ELSE allowedAt
            /\ UNCHANGED now

\* sparkRateLimiter.getRemaining(ip)
GetRemaining ==
    \E ip \in Ips :
        /\ lastCall' = LimiterCall("getRemaining", ip, getRemaining(store, ip, now),
                                   getRemaining(Solo(ip), ip, now))
        /\ UNCHANGED <<now, store, windowCalls, lastBlocked, allowedAt, soloStore>>

\* sparkRateLimiter.getResetTime(ip)
GetResetTime ==
    \E ip \in Ips :
        /\ lastCall' = LimiterCall("getResetTime", ip, getResetTime(store, ip, now),
                                   getResetTime(Solo(ip), ip, now))
        /\ UNCHANGED <<now, store, windowCalls, lastBlocked, allowedAt, soloStore>>

\* sparkRateLimiter.cleanup(), run by the interval timer
Cleanup ==
    /\ store' = cleanup(store, now)
    /\ soloStore' = [ip \in Ips |-> cleanup(Solo(ip), now)[ip]]
    /\ lastCall' = [NoLimiterCall EXCEPT !.op = "cleanup", !.at = now]
    /\ UNCHANGED <<now, windowCalls, lastBlocked, allowedAt>>

(***************************************************************************)
(* Spark service (lib/spark-service.ts) and the /api/sparks route          *)
(***************************************************************************)

\* Largest number of rows of the spark table.
MaxStored == 2
MaxInFlight == 2

\* getSparksByStatus(status, take = 50, skip = 0)
Take == 50

PENDING == "pending"
APPROVED == "approved"
REJECTED == "rejected"

securityHeaders ==
    {"X-Content-Type-Options", "X-XSS-Protection", "X-Frame-Options",
     "Referrer-Policy", "Content-Security-Policy"}

RateLimitHeaders == {"X-RateLimit-Limit", "X-RateLimit-Remaining", "X-RateLimit-Reset"}

Unset == [set |-> FALSE, at |-> 0]

\* An approval that leaves approvedAt as it was made.
SetAtUnset(t) == Unset

SetAt(t) == [set |-> TRUE, at |-> t]

\* A submission that is published at once.
NewRowApproved(text, t) ==
    [text |-> text, status |-> APPROVED, createdAt |-> t, approvedAt |-> SetAt(t)]

\* A row as prisma.spark.create makes it: status pending, approvedAt null.
NewRow(text, t) ==
    [text |-> text, status |-> PENDING, createdAt |-> t, approvedAt |-> Unset]

SparkIds == 1..MaxStored

\* Request bodies: the text is empty, blank, clean, or holds an e-mail address; a
\* coordinate is absent (null) or a number; the category is empty or not.
Given(v) == [given |-> TRUE, value |-> v]
Absent == [given |-> FALSE, value |-> 0]

ValidBody == [malformed |-> FALSE, text |-> "hello",
              latitude |-> Given(0), longitude |-> Given(0), category |-> "hope"]

Bodies ==
    {ValidBody,
     [ValidBody EXCEPT !.malformed = TRUE],
     [ValidBody EXCEPT !.text = ""],
     [ValidBody EXCEPT !.text = " "],
     [ValidBody EXCEPT !.text = "write to a@b.co"],
     [ValidBody EXCEPT !.latitude = Absent],
     [ValidBody EXCEPT !.latitude = Given(91)],
     [ValidBody EXCEPT !.longitude = Given(-181)],
     [ValidBody EXCEPT !.category = ""]}

\* sanitizeInput: escapes the HTML characters (none in the texts above), trims.
sanitizeInput(input) == IF input = " " THEN "" ELSE input

\* contentFilterService.validate(text).errors
validate(text) ==
    (IF text = "" \/ text = " " THEN <<"Spark text cannot be empty">> ELSE <<>>)
    \o (IF text = "write to a@b.co"
        THEN <<"Spark text cannot contain email addresses">> ELSE <<>>)

\* error.message.includes('cannot contain') for the joined validation errors
IncludesCannotContain(errors) ==
    \E k \in 1..Len(errors) : errors[k] = "Spark text cannot contain email addresses"

\* The ids of the rows prisma.spark.findMany({where: {status}}) returns.
FindManyNotRejected(status) ==
    {id \in 1..Len(db) : db[id].status # REJECTED}

FindManyKeepsRejected(status) ==
    {id \in 1..Len(db) : db[id].status \in {status, REJECTED}}

FindMany(status) ==
    {id \in 1..Len(db) : db[id].status = status}

\* The key of the orderBy clause: createdAt for the pending queue (ascending),
\* approvedAt otherwise (descending; a null approvedAt sorts first).
SortKey(status, id) ==
    IF status = PENDING THEN db[id].createdAt
    ELSE IF db[id].approvedAt.set THEN -db[id].approvedAt.at
    ELSE -(MaxNow + 1)

\* The orders in which findMany may return the ids: sorted by the key, rows with
\* equal keys in any order.
Ordered(ids, status) ==
    {order \in [1..Cardinality(ids) -> ids] :
        /\ \A a, b \in 1..Cardinality(ids) : a # b => order[a] # order[b]
        /\ \A a, b \in 1..Cardinality(ids) :
              a < b => SortKey(status, order[a]) <= SortKey(status, order[b])}

FirstN(order, n) == SubSeq(order, 1, Min(Len(order), n))

NoText == "none"

\* What an admin request carries: whether getServerSession finds a session,
\* whether the Origin header (if any) contains the host, the id of the path (NoId
\* for an empty one), and whether the database fails to answer.
NoId == 0
AdminIds == {NoId} \cup SparkIds
NoAdminRequest == [session |-> FALSE, originOk |-> FALSE, id |-> NoId, fails |-> FALSE]
AdminRequests == [session : BOOLEAN, originOk : BOOLEAN, id : AdminIds, fails : BOOLEAN]

NoReply == [op |-> "none", status |-> 0, code |-> "none", headers |-> {},
            remaining |-> 0, reset |-> 0, retryAfter |-> 0, sparks |-> <<>>,
            text |-> NoText, request |-> NoAdminRequest]

HttpReply(op, status, code, headers) ==
    [NoReply EXCEPT !.op = op, !.status = status, !.code = code, !.headers = headers]

ServiceReply(op, ids) == [NoReply EXCEPT !.op = op, !.sparks = ids]

InitService ==
    /\ db = <<>>
    /\ reply = NoReply
    /\ inflight = [ip \in Ips |-> 0]
    /\ passes = [ip \in Ips |-> 0]
    /\ createdBy = [ip \in Ips |-> 0]

handlerVars == <<inflight, passes, createdBy>>

RECURSIVE Total(_, _)
Total(count, ips) ==
    IF ips = {} THEN 0
    ELSE LET ip == CHOOSE i \in ips : TRUE IN count[ip] + Total(count, ips \ {ip})

\* sparkService.getApprovedSparks()
GetApprovedSparks ==
    \E order \in Ordered(FindMany(APPROVED), APPROVED) :
        /\ reply' = ServiceReply("getApprovedSparks", order)
        /\ UNCHANGED <<db, handlerVars>>

\* sparkService.getPendingSparks()
GetPendingSparks ==
    \E order \in Ordered(FindMany(PENDING), PENDING) :
        /\ reply' = ServiceReply("getPendingSparks", FirstN(order, Take))
        /\ UNCHANGED <<db, handlerVars>>

\* sparkService.createSpark(data): the content filter throws, or a row is made.
CreateSpark ==
    \E text \in {"", "hello", "write to a@b.co"} :
        /\ UNCHANGED handlerVars
        /\ IF validate(text) # <<>>
           THEN /\ reply' = [NoReply EXCEPT !.op = "createSpark", !.code = "throws"]
                /\ UNCHANGED db
           ELSE /\ Len(db) < MaxStored
                /\ db' = Append(db, NewRow(text, now))
                /\ reply' = ServiceReply("createSpark", <<Len(db) + 1>>)

\* sparkService.approveSpark(sparkId): prisma.spark.update throws for an id that
\* has no row.
ApproveSpark ==
    \E id \in SparkIds :
        /\ UNCHANGED handlerVars
        /\ IF id > Len(db)
           THEN /\ reply' = [NoReply EXCEPT !.op = "approveSpark", !.code = "throws"]
                /\ UNCHANGED db
           ELSE /\ db' = [db EXCEPT ![id].status = APPROVED, ![id].approvedAt = SetAt(now)]
                /\ reply' = ServiceReply("approveSpark", <<id>>)

\* sparkService.rejectSpark(sparkId)
RejectSpark ==
    \E id \in SparkIds :
        /\ UNCHANGED handlerVars
        /\ IF id > Len(db)
           THEN /\ reply' = [NoReply EXCEPT !.op = "rejectSpark", !.code = "throws"]
                /\ UNCHANGED db
           ELSE /\ db' = [db EXCEPT ![id].status = REJECTED]
                /\ reply' = ServiceReply("rejectSpark", <<id>>)

\* GET /api/sparks; the query may fail (database unreachable).
GetSparks ==
    \E fails \in BOOLEAN :
        \E order \in Ordered(FindMany(APPROVED), APPROVED) :
            /\ reply' = IF fails
                        THEN HttpReply("GET /api/sparks", 500, "FETCH_ERROR",
                                       securityHeaders)
                        ELSE [HttpReply("GET /api/sparks", 200, "none", securityHeaders)
                                 EXCEPT !.sparks = order]
            /\ UNCHANGED <<db, handlerVars>>

\* The answer of an admin moderation route: requireAuth first, then the origin
\* check, then the id, then the service call, whose prisma update throws
\* 'Record to update not found' for an id without a row and something else when
\* the database fails; errorCode is the route's code for that last case.
\* First, routes that ask for no session and check no origin.
AdminOutcomeOpen(request, errorCode) ==
    IF request.id = NoId
    THEN [status |-> 400, code |-> "VALIDATION_ERROR", acts |-> FALSE]
    ELSE IF request.fails THEN [status |-> 500, code |-> errorCode, acts |-> FALSE]
    ELSE IF request.id > Len(db) THEN [status |-> 404, code |-> "NOT_FOUND", acts |-> FALSE]
    ELSE [status |-> 200, code |-> "none", acts |-> TRUE]

AdminOutcome(request, errorCode) ==
    IF ~request.session THEN [status |-> 401, code |-> "AUTH_ERROR", acts |-> FALSE]
    ELSE IF ~request.originOk THEN [status |-> 403, code |-> "CSRF_ERROR", acts |-> FALSE]
    ELSE IF request.id = NoId
    THEN [status |-> 400, code |-> "VALIDATION_ERROR", acts |-> FALSE]
    ELSE IF request.fails THEN [status |-> 500, code |-> errorCode, acts |-> FALSE]
    ELSE IF request.id > Len(db) THEN [status |-> 404, code |-> "NOT_FOUND", acts |-> FALSE]
    ELSE [status |-> 200, code |-> "none", acts |-> TRUE]

AdminReply(op, request, outcome) ==
    [HttpReply(op, outcome.status, outcome.code, securityHeaders)
        EXCEPT !.request = request,
               !.sparks = IF outcome.acts THEN <<request.id>> ELSE <<>>]

\* POST /api/admin/sparks/[id]/approve
AdminApprove ==
    \E request \in AdminRequests :
        LET outcome == AdminOutcome(request, "APPROVE_ERROR")
        IN  /\ reply' = AdminReply("POST /api/admin/sparks/[id]/approve", request, outcome)
            /\ db' = IF outcome.acts
                     THEN [db EXCEPT ![request.id].status = APPROVED,
                                     ![request.id].approvedAt = SetAt(now)]
                     ELSE db
            /\ UNCHANGED handlerVars

\* POST /api/admin/sparks/[id]/reject
AdminReject ==
    \E request \in AdminRequests :
        LET outcome == AdminOutcome(request, "REJECT_ERROR")
        IN  /\ reply' = AdminReply("POST /api/admin/sparks/[id]/reject", request, outcome)
            /\ db' = IF outcome.acts
                     THEN [db EXCEPT ![request.id].status = REJECTED]
                     ELSE db
            /\ UNCHANGED handlerVars

\* The response of POST /api/sparks once the rate-limit check has passed, and
\* the text of the row it creates ("" when it creates none).
PostOutcome(body, storageFails) ==
    LET text == sanitizeInput(body.text)
        bad(code) == [status |-> 400, code |-> code, creates |-> FALSE]
    IN  IF body.malformed
        THEN [status |-> 500, code |-> "CREATE_ERROR", creates |-> FALSE]
        ELSE IF \/ body.text = ""
                \/ ~body.latitude.given
                \/ ~body.longitude.given
                \/ body.category = ""
        THEN bad("VALIDATION_ERROR")
        ELSE IF body.latitude.value < -90 \/ body.latitude.value > 90
        THEN bad("VALIDATION_ERROR")
        ELSE IF body.longitude.value < -180 \/ body.longitude.value > 180
        THEN bad("VALIDATION_ERROR")
        ELSE IF validate(text) # <<>>
        THEN IF IncludesCannotContain(validate(text))
             THEN bad("CONTENT_FILTER_ERROR")
             ELSE [status |-> 500, code |-> "CREATE_ERROR", creates |-> FALSE]
        ELSE IF storageFails
        THEN [status |-> 500, code |-> "CREATE_ERROR", creates |-> FALSE]
        ELSE [status |-> 201, code |-> "none", creates |-> TRUE]

\* POST /api/sparks from the client address ip, up to its first await: the
\* rate-limit check and its count are made in one synchronous step, a refused
\* request is answered at once, an allowed one goes on to read its body.
PostBegin(ip) ==
    LET isAllowed == CheckResult(store, ip, now)
        checked == CheckStore(store, ip, now)
        resetTime == getResetTime(checked, ip, now)
    IN  /\ store' = checked
        /\ UNCHANGED <<db, createdBy>>
        /\ IF ~isAllowed
           THEN /\ reply' = [HttpReply("POST /api/sparks", 429, "RATE_LIMIT_EXCEEDED",
                                       {"Retry-After"} \cup RateLimitHeaders)
                                EXCEPT !.retryAfter = resetTime,
                                       !.remaining = 0,
                                       !.reset = now + resetTime * TicksPerSecond]
                /\ UNCHANGED <<inflight, passes>>
           ELSE /\ Total(inflight, Ips) < MaxInFlight
                /\ inflight' = [inflight EXCEPT ![ip] = @ + 1]
                /\ passes' = [passes EXCEPT ![ip] = @ + 1]
                /\ UNCHANGED reply

\* The rest of a POST /api/sparks handler that passed the check: the body is
\* read and validated, the spark is created and the response is built from the
\* limiter's store as it is by then.
PostEnd(ip) ==
    \E body \in Bodies, storageFails \in BOOLEAN :
        LET outcome == PostOutcome(body, storageFails)
            resetTime == getResetTime(store, ip, now)
            sent == IF body.malformed THEN NoText ELSE body.text
        IN  /\ inflight[ip] > 0
            /\ inflight' = [inflight EXCEPT ![ip] = @ - 1]
            /\ UNCHANGED <<store, passes>>
            /\ IF outcome.creates
               THEN /\ Len(db) < MaxStored
                    /\ db' = Append(db, NewRow(sanitizeInput(body.text), now))
                    /\ createdBy' = [createdBy EXCEPT ![ip] = @ + 1]
                    /\ reply' = [HttpReply("POST /api/sparks", 201, "none",
                                           securityHeaders \cup RateLimitHeaders)
                                    EXCEPT !.remaining = getRemaining(store, ip, now),
                                           !.reset = now + resetTime * TicksPerSecond,
                                           !.sparks = <<Len(db) + 1>>,
                                           !.text = sent]
               ELSE /\ reply' = [HttpReply("POST /api/sparks", outcome.status,
                                           outcome.code, securityHeaders)
                                    EXCEPT !.text = sent]
                    /\ UNCHANGED <<db, createdBy>>

(***************************************************************************)
(* Home page: card, form and 'Next spark' requests (app/page.tsx)          *)
(***************************************************************************)

MaxHomeSparks == 3
MaxPending == 3

NoSpark == 0
HomeSparks == 1..MaxHomeSparks

NoLocation == [set |-> FALSE, lat |-> 0, lng |-> 0]
Coordinates == {[set |-> TRUE, lat |-> 0, lng |-> 0], [set |-> TRUE, lat |-> 0, lng |-> 90]}

\* What a click on the page outside card and buttons lands on.
Targets == {"spark", "sphere", "background"}

NoHomeEvent == [op |-> "none", target |-> "none"]
HomeEvent(op, target) == [op |-> op, target |-> target]

InitHome ==
    /\ selectedSpark = NoSpark
    /\ showForm = FALSE
    /\ globeClickLocation = NoLocation
    /\ nextRequests = 0
    /\ closed = FALSE
    /\ lastHome = NoHomeEvent

\* The render conditions of the card and of the form.
CardDisplayed == selectedSpark # NoSpark /\ ~showForm
FormDisplayed == showForm

\* A click on a spark of the globe, a click on the sphere or a click beside the
\* globe; the form's backdrop covers the page, so the click needs the form to be
\* away. The card's document listener sees the mousedown first when a card is
\* open (handleClickOutside calls onClose), then the globe's picker hands the
\* click to handleSparkClick or handleGlobeClick.
Click ==
    \E target \in Targets, spark \in HomeSparks, coordinates \in Coordinates :
        /\ ~FormDisplayed
        /\ selectedSpark' = IF target = "spark" THEN spark ELSE NoSpark
        /\ showForm' = (target = "sphere")
        /\ globeClickLocation' = IF target = "sphere" THEN coordinates
                                 ELSE globeClickLocation
        /\ closed' = IF target = "spark" THEN FALSE
                     ELSE IF CardDisplayed THEN TRUE
                     ELSE closed
        /\ lastHome' = HomeEvent(IF CardDisplayed THEN "clickOutside" ELSE "click", target)
        /\ UNCHANGED nextRequests

\* Home.handleNextSpark up to its await: the card's 'Next spark' button.
NextSpark ==
    /\ CardDisplayed
    /\ nextRequests < MaxPending
    /\ nextRequests' = nextRequests + 1
    /\ lastHome' = HomeEvent("nextSpark", "none")
    /\ UNCHANGED <<selectedSpark, showForm, globeClickLocation, closed>>

\* Home.handleNextSpark from its await on: a spark arrives, or the answer is 404
\* or an error and nothing is set.
NextSparkResponse(spark, found) ==
    IF found THEN spark ELSE selectedSpark

NextSparkSettles ==
    \E spark \in HomeSparks, found \in BOOLEAN :
        /\ nextRequests > 0
        /\ nextRequests' = nextRequests - 1
        /\ selectedSpark' = NextSparkResponse(spark, found)
        /\ lastHome' = HomeEvent("nextSparkResponse", "none")
        /\ UNCHANGED <<showForm, globeClickLocation, closed>>

\* Home.handleAddSpark: the floating button, or the card's 'Add your spark'.
AddSpark ==
    /\ ~FormDisplayed
    /\ selectedSpark' = NoSpark
    /\ showForm' = TRUE
    /\ globeClickLocation' = NoLocation
    /\ closed' = TRUE
    /\ lastHome' = HomeEvent("addSpark", "none")
    /\ UNCHANGED nextRequests

\* Home.handleFormCancel
FormCancel ==
    /\ FormDisplayed
    /\ showForm' = FALSE
    /\ globeClickLocation' = NoLocation
    /\ lastHome' = HomeEvent("formCancel", "none")
    /\ UNCHANGED <<selectedSpark, nextRequests, closed>>

(***************************************************************************)
(* Admin panel: single moderation actions (app/admin/page.tsx)             *)
(***************************************************************************)

MaxListed == 3

ListedIds == 1..MaxListed

NoAction == [state |-> "idle", snapshot |-> {}]

InitAdminPage ==
    /\ adminSparks = ListedIds
    /\ actions = [id \in ListedIds |-> NoAction]

\* AdminPage.handleAction up to its await: the snapshot is taken, the spark is
\* taken off the list and the request is sent (one request per spark at a time).
StartAction ==
    \E id \in adminSparks :
        /\ actions[id].state # "inflight"
        /\ actions' = [actions EXCEPT ![id] = [state |-> "inflight", snapshot |-> adminSparks]]
        /\ adminSparks' = adminSparks \ {id}

\* What the catch block of handleAction puts back.
RolledBack(id) == actions[id].snapshot

\* AdminPage.handleAction from its await on: the response is ok, or it is not
\* (or the fetch throws) and the list is rolled back.
SettleAction ==
    \E id \in ListedIds, ok \in BOOLEAN :
        /\ actions[id].state = "inflight"
        /\ actions' = [actions EXCEPT ![id].state = IF ok THEN "succeeded" ELSE "failed"]
        /\ adminSparks' = IF ok THEN adminSparks ELSE RolledBack(id)

(***************************************************************************)
(* Specifications                                                          *)
(***************************************************************************)

IdlePicker ==
    /\ sparkDataRef = <<>>
    /\ hasOnSparkClick = FALSE
    /\ hasOnClick = FALSE
    /\ startPosRef = <<0, 0>>
    /\ isDraggingRef = FALSE
    /\ startPos = <<0, 0>>
    /\ isDragging = FALSE
    /\ pointer = [isDown |-> FALSE, pos |-> <<0, 0>>, on |-> {}]
    /\ sparkClicks = <<>>
    /\ globeClicks = <<>>
    /\ lastUp = NoUp

IdleRegistry == InitRegistry

IdleProjection == InitProjection

IdleLimiter == InitLimiter

IdleService == InitService

IdleHome == InitHome

IdleAdminPage == InitAdminPage

IdlePages == IdleHome /\ IdleAdminPage

\* The gesture-to-camera mapper on its own: any sequence of helper calls.
CameraInit == InitCamera /\ IdlePicker /\ IdleRegistry /\ IdleProjection /\ IdleLimiter /\ IdleService /\ IdlePages
CameraNext ==
    \/ TouchDrag /\ UNCHANGED <<pickVars, regVars, projVars, limVars, svcVars, pageVars>>
    \/ MouseDrag /\ UNCHANGED <<pickVars, regVars, projVars, limVars, svcVars, pageVars>>
    \/ Pinch /\ UNCHANGED <<pickVars, regVars, projVars, limVars, svcVars, pageVars>>
    \/ Scroll /\ UNCHANGED <<pickVars, regVars, projVars, limVars, svcVars, pageVars>>
CameraSpec == CameraInit /\ [][CameraNext]_vars

IdleCamera ==
    /\ rotation = <<0, 0, 0>>
    /\ distance = MaxDist
    /\ minDistance = 1
    /\ maxDistance = MaxDist
    /\ initRoll = 0
    /\ last = NoCall
    /\ reversal = FALSE

\* The two pickers under any sequence of pointer interactions.
PickerInit == IdleCamera /\ InitPicker /\ IdleRegistry /\ IdleProjection /\ IdleLimiter /\ IdleService /\ IdlePages
PickerNext ==
    \/ PointerDown /\ UNCHANGED <<camVars, regVars, projVars, limVars, svcVars, pageVars>>
    \/ PointerUp /\ UNCHANGED <<camVars, regVars, projVars, limVars, svcVars, pageVars>>
PickerSpec == PickerInit /\ [][PickerNext]_vars

\* The instance registry under renders, camera moves, hovers and frames.
RegistryInit == IdleCamera /\ IdlePicker /\ InitRegistry /\ IdleProjection /\ IdleLimiter /\ IdleService /\ IdlePages
RegistryNext ==
    \/ Render /\ UNCHANGED <<camVars, pickVars, projVars, limVars, svcVars, pageVars>>
    \/ Orbit /\ UNCHANGED <<camVars, pickVars, projVars, limVars, svcVars, pageVars>>
    \/ Hover /\ UNCHANGED <<camVars, pickVars, projVars, limVars, svcVars, pageVars>>
    \/ Frame /\ UNCHANGED <<camVars, pickVars, projVars, limVars, svcVars, pageVars>>
RegistrySpec == RegistryInit /\ [][RegistryNext]_vars

\* latLngToVector3 and the click inverse under any sequence of calls.
ProjectionInit == IdleCamera /\ IdlePicker /\ IdleRegistry /\ InitProjection /\ IdleLimiter /\ IdleService /\ IdlePages
ProjectionNext ==
    \/ Project /\ UNCHANGED <<camVars, pickVars, regVars, limVars, svcVars, pageVars>>
    \/ ClickProjected /\ UNCHANGED <<camVars, pickVars, regVars, limVars, svcVars, pageVars>>
ProjectionSpec == ProjectionInit /\ [][ProjectionNext]_vars

\* The home page under any sequence of clicks, button presses and answers to
\* its 'Next spark' requests.
HomeInit ==
    /\ IdleCamera /\ IdlePicker /\ IdleRegistry /\ IdleProjection
    /\ IdleLimiter /\ IdleService /\ InitHome /\ IdleAdminPage
notHome == <<camVars, pickVars, regVars, projVars, limVars, svcVars, adminVars>>
HomeNext ==
    \/ Click /\ UNCHANGED notHome
    \/ NextSpark /\ UNCHANGED notHome
    \/ NextSparkSettles /\ UNCHANGED notHome
    \/ AddSpark /\ UNCHANGED notHome
    \/ FormCancel /\ UNCHANGED notHome
HomeSpec == HomeInit /\ [][HomeNext]_vars

\* The admin panel under any interleaving of single actions and their answers.
AdminPageInit ==
    /\ IdleCamera /\ IdlePicker /\ IdleRegistry /\ IdleProjection
    /\ IdleLimiter /\ IdleService /\ IdleHome /\ InitAdminPage
notAdminPage == <<camVars, pickVars, regVars, projVars, limVars, svcVars, homeVars>>
AdminPageNext ==
    \/ StartAction /\ UNCHANGED notAdminPage
    \/ SettleAction /\ UNCHANGED notAdminPage
AdminPageSpec == AdminPageInit /\ [][AdminPageNext]_vars

\* Everything that runs in the browser, for the specifications of the server.
globeVars == <<camVars, pickVars, regVars, projVars, pageVars>>
IdleGlobe == IdleCamera /\ IdlePicker /\ IdleRegistry /\ IdleProjection /\ IdlePages

\* The rate limiter under any interleaving of its calls and the passing of time.
LimiterInit == IdleGlobe /\ InitLimiter /\ IdleService
LimiterNext ==
    \/ Tick /\ UNCHANGED <<globeVars, svcVars>>
    \/ Check /\ UNCHANGED <<globeVars, svcVars>>
    \/ GetRemaining /\ UNCHANGED <<globeVars, svcVars>>
    \/ GetResetTime /\ UNCHANGED <<globeVars, svcVars>>
    \/ Cleanup /\ UNCHANGED <<globeVars, svcVars>>
LimiterSpec == LimiterInit /\ [][LimiterNext]_vars

\* The spark service and the /api/sparks route under any sequence of requests
\* and service calls made within one tick of the clock, the POST requests coming
\* from one address, one handler at a time; the limiter's call history is not
\* kept here.
Clients == {"1.1.1.1"}
limHistory == <<lastCall, windowCalls, lastBlocked, allowedAt, soloStore>>
NoneInFlight == \A ip \in Ips : inflight[ip] = 0
ServerInit == IdleGlobe /\ InitLimiter /\ InitService
ServerNext ==
    \/ \E ip \in Clients :
           PostBegin(ip) /\ NoneInFlight /\ UNCHANGED <<globeVars, now, limHistory>>
    \/ \E ip \in Clients : PostEnd(ip) /\ UNCHANGED <<globeVars, now, limHistory>>
    \/ GetSparks /\ UNCHANGED <<globeVars, limVars>>
    \/ GetApprovedSparks /\ UNCHANGED <<globeVars, limVars>>
    \/ GetPendingSparks /\ UNCHANGED <<globeVars, limVars>>
    \/ CreateSpark /\ UNCHANGED <<globeVars, limVars>>
    \/ ApproveSpark /\ UNCHANGED <<globeVars, limVars>>
    \/ RejectSpark /\ UNCHANGED <<globeVars, limVars>>
ServerSpec == ServerInit /\ [][ServerNext]_vars

\* The admin moderation routes over a table filled by createSpark.
ModerationInit == ServerInit
ModerationNext ==
    \/ CreateSpark /\ UNCHANGED <<globeVars, limVars>>
    \/ AdminApprove /\ UNCHANGED <<globeVars, limVars>>
    \/ AdminReject /\ UNCHANGED <<globeVars, limVars>>
    \/ GetPendingSparks /\ UNCHANGED <<globeVars, limVars>>
    \/ GetApprovedSparks /\ UNCHANGED <<globeVars, limVars>>
ModerationSpec == ModerationInit /\ [][ModerationNext]_vars

\* POST /api/sparks handlers running concurrently within one tick of the clock:
\* a handler gives way at each await, so their steps interleave in any order.
HandlerInit == ServerInit
HandlerNext ==
    \/ \E ip \in Ips : PostBegin(ip) /\ UNCHANGED <<globeVars, now, limHistory>>
    \/ \E ip \in Ips : PostEnd(ip) /\ UNCHANGED <<globeVars, now, limHistory>>
HandlerSpec == HandlerInit /\ [][HandlerNext]_vars

(***************************************************************************)
(* Claims about the gesture-to-camera mapper (checked under CameraSpec)    *)
(***************************************************************************)

\* C1: with minDistance <= maxDistance, after any pinch or scroll update (any
\* starting distance, delta and zoom speed) the distance is a number inside
\* [minDistance, maxDistance]: a value computed outside is clamped to the bound.
C1_DistanceWithinBounds ==
    (IsZoom(last) /\ minDistance <= maxDistance) =>
        /\ distance \in Int
        /\ minDistance <= distance /\ distance <= maxDistance
        /\ last.raw < minDistance => distance = minDistance
        /\ last.raw > maxDistance => distance = maxDistance

\* C1 witness: a pinch from a distance below the range computed a value further
\* below and was clamped to the lower bound.
C1_Witness ==
    /\ last.kind = "pinch"
    /\ minDistance < maxDistance
    /\ last.distBefore < minDistance
    /\ last.raw < last.distBefore
    /\ distance = minDistance

\* C2: a rotation update with delta (dx, dy) and speed s maps (rx, ry, rz) to
\* (rx + dy*s*0.01, ry + dx*s*0.01, rz); a zoom update leaves the rotation alone;
\* so roll always equals its initial value.
C2_RotationFormulaRollFixed ==
    /\ IsRotation(last) =>
          rotation = << last.rotBefore[1] + Hundredth(last.delta[2] * last.speed),
                        last.rotBefore[2] + Hundredth(last.delta[1] * last.speed),
                        last.rotBefore[3] >>
    /\ IsZoom(last) => rotation = last.rotBefore
    /\ rotation[3] = initRoll

\* C2 witness: a drag with different x and y deltas changed pitch and yaw by
\* different amounts, with a non-zero roll that stayed as constructed.
C2_Witness ==
    /\ IsRotation(last)
    /\ last.delta = <<1, -1>>
    /\ rotation[1] = last.rotBefore[1] - last.speed
    /\ rotation[2] = last.rotBefore[2] + last.speed
    /\ rotation[3] = 1 /\ initRoll = 1

\* C3 as stated: a zero-delta pinch or scroll returns the distance unchanged for
\* any current distance and bounds, and a zero-delta drag or touch returns the
\* rotation unchanged.
C3_ZeroDeltaNoOpAnyDistance ==
    /\ (IsZoom(last) /\ last.delta[1] = 0) => distance = last.distBefore
    /\ (IsRotation(last) /\ last.delta = <<0, 0>>) => rotation = last.rotBefore

\* C3 amended: a zero-delta pinch or scroll returns the distance unchanged when
\* the current distance lies within [minDistance, maxDistance] (otherwise it
\* returns the clamped distance), and a zero-delta drag or touch returns the
\* rotation unchanged.
C3_ZeroDeltaNoOpInBounds ==
    /\ (IsZoom(last) /\ last.delta[1] = 0 /\ InBounds(last.distBefore)) =>
          distance = last.distBefore
    /\ (IsZoom(last) /\ last.delta[1] = 0 /\ ~InBounds(last.distBefore)) =>
          distance = Max(minDistance, Min(maxDistance, last.distBefore))
    /\ (IsRotation(last) /\ last.delta = <<0, 0>>) => rotation = last.rotBefore

\* C3 witness: a zero-delta pinch at the upper bound, with a non-zero zoom speed,
\* left the distance where it was.
C3_Witness ==
    /\ last.kind = "pinch"
    /\ last.delta[1] = 0
    /\ last.speed > 0
    /\ minDistance < maxDistance
    /\ last.distBefore = maxDistance
    /\ distance = maxDistance

PinchOf(c, d) ==
    updateCameraDistanceFromPinch(c.distBefore, d, c.speed, minDistance, maxDistance)
ScrollOf(c, d) ==
    updateCameraDistanceFromZoom(c.distBefore, d, c.speed, minDistance, maxDistance)
SameDirection(c) ==
    \/ PinchOf(c, c.delta[1]) > c.distBefore /\ ScrollOf(c, c.delta[1]) > c.distBefore
    \/ PinchOf(c, c.delta[1]) < c.distBefore /\ ScrollOf(c, c.delta[1]) < c.distBefore

\* C5 as stated: for every distance, delta, zoom speed and bounds the scroll
\* update with delta d returns the distance the pinch update returns with -d (and
\* the other way round), and a positive delta never moves the two in the same
\* direction.
C5_ScrollIsNegatedPinchAnyDistance ==
    /\ last.kind = "scroll" => distance = PinchOf(last, -last.delta[1])
    /\ last.kind = "pinch" => distance = ScrollOf(last, -last.delta[1])
    /\ (IsZoom(last) /\ last.delta[1] > 0) => ~SameDirection(last)

\* C5 amended: for every distance, delta, zoom speed and bounds the scroll update
\* with delta d returns the distance the pinch update returns with -d; and for a
\* distance within [minDistance, maxDistance] a positive delta never moves the
\* two in the same direction (from a distance outside the bounds both are
\* clamped towards the range).
C5_ScrollIsNegatedPinch ==
    /\ last.kind = "scroll" => distance = PinchOf(last, -last.delta[1])
    /\ last.kind = "pinch" => distance = ScrollOf(last, -last.delta[1])
    /\ (IsZoom(last) /\ last.delta[1] > 0 /\ InBounds(last.distBefore)) =>
          ~SameDirection(last)

\* C5 witness: a scroll with a positive delta moved the camera away, where the
\* pinch with the same delta would have moved it closer.
C5_Witness ==
    /\ last.kind = "scroll"
    /\ last.delta[1] > 0
    /\ distance > last.distBefore
    /\ PinchOf(last, last.delta[1]) < last.distBefore
    /\ distance = PinchOf(last, -last.delta[1])

\* C6: a rotation delta D followed by -D at the same speed returns the original
\* rotation, and a zoom delta D (scroll or pinch) followed by -D at the same
\* speed returns the original distance, provided the distance started inside
\* the bounds and neither step was clamped.
C6_RoundTrip ==
    [][ Reverses(last', last) =>
            /\ IsRotation(last') => rotation' = last.rotBefore
            /\ IsZoom(last') => distance' = last.distBefore ]_vars

\* C6 witness: a pinch that moved the camera has just been undone by the opposite
\* pinch, neither of them clamped.
C6_Witness ==
    /\ reversal
    /\ last.kind = "pinch"
    /\ last.delta[1] # 0
    /\ distance # last.distBefore

\* C7: whichever of the touch and the mouse-drag update made the latest rotation,
\* the result is the value both helpers return for the same rotation, delta and
\* speed.
C7_TouchEqualsDrag ==
    IsRotation(last) =>
        /\ rotation = updateRotationFromTouch(last.rotBefore, last.delta, last.speed)
        /\ rotation = updateRotationFromDrag(last.rotBefore, last.delta, last.speed)

\* C7 witness: a mouse drag with a delta on one axis only turned the globe.
C7_Witness ==
    /\ last.kind = "drag"
    /\ last.delta = <<1, 0>>
    /\ last.speed = 2
    /\ rotation # last.rotBefore

(***************************************************************************)
(* Claims about the spark picker (checked under PickerSpec)                *)
(***************************************************************************)

\* Squared screen distance between the pointer-down and the pointer-up of the
\* interaction that has just ended.
MovedSquared ==
    (lastUp.pos[1] - pointer.pos[1]) * (lastUp.pos[1] - pointer.pos[1])
    + (lastUp.pos[2] - pointer.pos[2]) * (lastUp.pos[2] - pointer.pos[2])

\* An interaction has just ended whose pointer-down and pointer-up both reached
\* the spark picker.
SparkInteractionEnded ==
    /\ lastUp.seen
    /\ ~pointer.isDown
    /\ "sparks" \in pointer.on
    /\ ReachesSparks(lastUp.hit)

\* C8: after a pointer-down at P and a pointer-up at Q on the spark picker with
\* hit instance K, a valid index, and a click callback present, exactly the spark
\* at index K is emitted, once, if |Q - P| <= 5 pixels (5 included); nothing is
\* emitted if |Q - P| > 5, whatever K is.
C8_SparkClickOrDrag ==
    SparkInteractionEnded =>
        /\ ( /\ MovedSquared <= 25
             /\ hasOnSparkClick
             /\ (lastUp.hit.instanceId + 1) \in DOMAIN sparkDataRef ) =>
                sparkClicks = <<sparkDataRef[lastUp.hit.instanceId + 1]>>
        /\ MovedSquared > 25 => sparkClicks = <<>>

\* C8 witness: the pointer moved exactly 5 pixels between down and up on the
\* second spark, and that spark was emitted once.
C8_Witness ==
    /\ SparkInteractionEnded
    /\ MovedSquared = 25
    /\ lastUp.hit.instanceId = 1
    /\ Len(sparkDataRef) = 2
    /\ sparkClicks = <<sparkDataRef[2]>>

(***************************************************************************)
(* Claims about the instance registry (checked under RegistrySpec)         *)
(***************************************************************************)

\* C9: once the point set is loaded or replaced, whenever a frame has handed the
\* buffer to the renderer every instance, inside the frustum or not, has the
\* position its point projects to at the globe radius and faces the centre; none
\* is left with an earlier transform or with the identity.
C9_EveryInstanceProjected ==
    phase = "frame" =>
        \A i \in 1..Len(sparks) :
            /\ instanceMatrix[i].position =
                  latLngToVector3(sparks[i][1], sparks[i][2], GlobeRadius)
            /\ instanceMatrix[i].facing = "centre"

\* C10: in every frame the frustum is that of the current camera, instance i is
\* rewritten exactly when positions[i] lies inside it, the entries of the
\* instances outside are unchanged, every instance inside carries the scale of
\* this frame's time and hover index, and the buffer is marked for upload.
C10_FrameCulling ==
    [][ phase' = "frame" =>
            /\ \A i \in 1..Len(positions') :
                  /\ i \in written' <=> ContainsPoint(camera', positions'[i])
                  /\ i \notin written' => instanceMatrix'[i] = instanceMatrix[i]
                  /\ i \in written' =>
                        instanceMatrix'[i] =
                            [position |-> positions'[i], facing |-> "centre",
                             scale |-> BaseScale(i - 1, hoveredIndex')
                                       * PulseScale(clock', i - 1)]
            /\ needsUpdate' ]_vars

\* C10 witness: a frame has rewritten the hovered instance, which is inside the
\* frustum, and left alone an instance outside it that still carries the pulse
\* of an earlier frame.
C10_Witness ==
    /\ phase = "frame"
    /\ \E i \in written, j \in (1..Len(positions)) \ written :
          /\ hoveredIndex = i - 1
          /\ instanceMatrix[i].scale = 15 * PulseScale(clock, i - 1)
          /\ instanceMatrix[j].facing = "centre"
          /\ instanceMatrix[j].scale # 10 * PulseScale(clock, j - 1)

(***************************************************************************)
(* C11: the scale at time 0                                                *)
(***************************************************************************)

C12_OnSphereAndDeterministic ==
    projCall.made =>
        /\ Dot(projCall.position, projCall.position) =
               projCall.radius * projCall.radius
        /\ Length(projCall.position) = projCall.radius
        /\ (/\ projPrev.made
            /\ projPrev.lat = projCall.lat
            /\ projPrev.lng = projCall.lng
            /\ projPrev.radius = projCall.radius)
           => projPrev.position = projCall.position

\* C12 witness: two calls in a row with the same arguments, for a point off
\* the poles and off the prime meridian plane, at the globe radius.
C12_Witness ==
    /\ projCall.made
    /\ projPrev.made
    /\ projCall.lat = 0
    /\ projCall.lng = 90
    /\ projCall.radius = GlobeRadius
    /\ projPrev.lat = 0
    /\ projPrev.lng = 90
    /\ projPrev.radius = GlobeRadius
    /\ projCall.position = <<0, 0, -GlobeRadius>>

\* -180 and 180 are the same meridian.
SameMeridian(a, b) == (a - b) % 360 = 0

AtPole(lat) == lat = 90 \/ lat = -90

DistinctPair ==
    /\ projCall.made
    /\ projPrev.made
    /\ projCall.radius = projPrev.radius
    /\ projCall.lat # projPrev.lat \/ projCall.lng # projPrev.lng

\* C14 as stated: two coordinate pairs that differ in latitude or longitude
\* always get two different positions.
C14_DistinctAnyPair ==
    DistinctPair => projCall.position # projPrev.position

\* C14 amended: two coordinate pairs get the same position exactly when they
\* name the same place, that is the same pole, or the same latitude and
\* longitudes a whole turn apart (-180 and 180); all other pairs get different
\* positions, and the positions array has one entry per point.
C14_DistinctPlaces ==
    DistinctPair =>
        /\ projCall.position = projPrev.position
             <=> /\ projCall.lat = projPrev.lat
                 /\ \/ AtPole(projCall.lat)
                    \/ SameMeridian(projCall.lng, projPrev.lng)
        /\ Len(PositionsOf(<<<<projPrev.lat, projPrev.lng>>,
                             <<projCall.lat, projCall.lng>>>>)) = 2

\* C14 witness: longitudes -90 and 90 on the equator are projected to two
\* opposite points.
C14_Witness ==
    /\ DistinctPair
    /\ projPrev.lat = 0
    /\ projPrev.lng = -90
    /\ projCall.lat = 0
    /\ projCall.lng = 90
    /\ projCall.position[3] = -projPrev.position[3]
    /\ projCall.position # projPrev.position

(***************************************************************************)
(* Claims about the rate limiter (checked under LimiterSpec)               *)
(***************************************************************************)

\* C15: counting from the check that opens a window, the first maxRequests
\* checks of an IP made before the window's resetTime return true, and every
\* further check before resetTime returns false and leaves the stored count and
\* resetTime as they were.
C15_WindowLimit ==
    lastCall.op = "check" =>
        LET ip == lastCall.ip
            k == windowCalls[ip]
        IN  /\ k >= 1
            /\ k <= MaxRequests =>
                  /\ lastCall.result = TRUE
                  /\ store[ip].present
                  /\ store[ip].count = k
                  /\ lastCall.at < store[ip].resetTime
            /\ k > MaxRequests =>
                  /\ lastCall.result = FALSE
                  /\ store[ip] = lastCall.before
                  /\ store[ip].count = MaxRequests

\* C15 witness: the sixth check of a window has been refused and the entry is
\* as the fifth check left it.
C15_Witness ==
    /\ lastCall.op = "check"
    /\ lastCall.result = FALSE
    /\ windowCalls[lastCall.ip] = MaxRequests + 1
    /\ store[lastCall.ip] = Entry(MaxRequests, WindowTicks)
    /\ lastCall.at < WindowTicks

\* C16: in any period of windowMs, whatever its starting instant, at most
\* maxRequests checks of one IP return true.  allowedAt holds the allowed checks
\* of the period of length windowMs that ends now.
C16_AtMostFivePerHour ==
    \A ip \in Ips : Len(allowedAt[ip]) <= MaxRequests

\* C17: a check made at or past the entry's resetTime returns true, also for an
\* IP that was refused before, and starts a window with count 1 and resetTime =
\* now + windowMs, after which getRemaining reports maxRequests - 1; an IP
\* whose latest check was refused is allowed by its next check once windowMs has
\* passed since the refusal.
C17_WindowExpiry ==
    lastCall.op = "check" =>
        LET ip == lastCall.ip
        IN  /\ (lastCall.before.present /\ lastCall.at >= lastCall.before.resetTime) =>
                  /\ lastCall.result = TRUE
                  /\ store[ip] = Entry(1, lastCall.at + WindowTicks)
                  /\ getRemaining(store, ip, lastCall.at) = MaxRequests - 1
            /\ (/\ lastCall.blockedBefore.seen
                /\ lastCall.at >= lastCall.blockedBefore.at + WindowTicks) =>
                  lastCall.result = TRUE

\* C17 witness: an IP that had been refused is allowed by the first check at
\* its resetTime.
C17_Witness ==
    /\ lastCall.op = "check"
    /\ lastCall.blockedBefore.seen
    /\ lastCall.before = Entry(MaxRequests, lastCall.at)
    /\ lastCall.result = TRUE
    /\ store[lastCall.ip] = Entry(1, lastCall.at + WindowTicks)

\* C18: whatever calls are made for the other IPs, every result returned for an
\* IP is the one a limiter that has only seen this IP's calls returns, and the two
\* limiters answer the next check, getRemaining and getResetTime for it alike.
C18_IndependentIps ==
    /\ lastCall.op \in {"check", "getRemaining", "getResetTime"} =>
           lastCall.result = lastCall.soloResult
    /\ \A ip \in Ips :
           /\ CheckResult(store, ip, now) = CheckResult(Solo(ip), ip, now)
           /\ getRemaining(store, ip, now) = getRemaining(Solo(ip), ip, now)
           /\ getResetTime(store, ip, now) = getResetTime(Solo(ip), ip, now)

\* C18 witness: one IP has used up its quota and has been refused, and a check
\* for another IP, made at the same instant, has been allowed.
C18_Witness ==
    /\ lastCall.op = "check"
    /\ lastCall.result = TRUE
    /\ \E other \in Ips \ {lastCall.ip} :
           /\ store[other].present
           /\ store[other].count = MaxRequests
           /\ now < store[other].resetTime
           /\ lastBlocked[other] = [seen |-> TRUE, at |-> lastCall.at]

(***************************************************************************)
(* Claims about the service and the route (checked under ServerSpec)       *)
(***************************************************************************)

\* C19: every response of POST /api/sparks, whatever its status, carries the
\* X-RateLimit-Limit, X-RateLimit-Remaining and X-RateLimit-Reset headers, and a
\* 429 response also carries Retry-After and X-RateLimit-Remaining = 0.
C19_RateLimitHeadersOnEveryResponse ==
    reply.op = "POST /api/sparks" =>
        /\ RateLimitHeaders \subseteq reply.headers
        /\ reply.status = 429 =>
              /\ "Retry-After" \in reply.headers
              /\ reply.remaining = 0

\* The ids of a result, as a set.
Range(ids) == {ids[k] : k \in 1..Len(ids)}

\* C20: getApprovedSparks and GET /api/sparks return exactly the sparks whose
\* status is approved, each once, and getPendingSparks returns only sparks whose
\* status is pending; no pending or rejected spark is in the public result.
C20_ApprovedOnlyVisible ==
    /\ (\/ reply.op = "getApprovedSparks"
        \/ reply.op = "GET /api/sparks" /\ reply.status = 200) =>
           /\ Range(reply.sparks) = {id \in 1..Len(db) : db[id].status = APPROVED}
           /\ Len(reply.sparks) = Cardinality(Range(reply.sparks))
    /\ reply.op = "getPendingSparks" =>
           \A id \in Range(reply.sparks) : db[id].status = PENDING

\* C20 witness: the public query returns the one approved spark while another
\* spark, approved earlier, has been rejected.
C20_Witness ==
    /\ reply.op = "GET /api/sparks"
    /\ reply.status = 200
    /\ Len(db) = 2
    /\ Len(reply.sparks) = 1
    /\ db[reply.sparks[1]].status = APPROVED
    /\ \E id \in 1..Len(db) : db[id].status = REJECTED /\ db[id].approvedAt.set

\* A reply that names the row a submission has just made.
IsCreated ==
    \/ reply.op = "createSpark" /\ reply.code # "throws"
    \/ reply.op = "POST /api/sparks" /\ reply.status = 201

\* A reply that carries the result of the public query.
IsPublicResult ==
    \/ reply.op = "getApprovedSparks"
    \/ reply.op = "GET /api/sparks" /\ reply.status = 200

\* C21: a spark made by createSpark or by an accepted POST /api/sparks starts
\* pending with approvedAt unset; no row is approved, and none is in the public
\* result, before an approveSpark has completed for it (approvedAt is set by
\* nothing else).
C21_CreatedPendingAndHidden ==
    /\ IsCreated =>
          /\ db[reply.sparks[1]].status = PENDING
          /\ db[reply.sparks[1]].approvedAt = Unset
    /\ \A id \in 1..Len(db) : db[id].status = APPROVED => db[id].approvedAt.set
    /\ IsPublicResult => \A id \in Range(reply.sparks) : db[id].approvedAt.set

\* C21 witness: the public query answers with no spark while the table holds two
\* submissions, one of them posted, neither approved yet.
C21_Witness ==
    /\ reply.op = "GET /api/sparks"
    /\ reply.status = 200
    /\ reply.sparks = <<>>
    /\ Len(db) = 2
    /\ Total(createdBy, Ips) = 1
    /\ \A id \in 1..Len(db) : db[id].status = PENDING

\* C22: after approveSpark(id) the spark is approved with approvedAt set, and in
\* every reachable state an approved spark has approvedAt set and a pending one
\* has it unset.
C22_ApprovalStamp ==
    /\ (reply.op = "approveSpark" /\ reply.code # "throws") =>
          /\ db[reply.sparks[1]].status = APPROVED
          /\ db[reply.sparks[1]].approvedAt = [set |-> TRUE, at |-> now]
    /\ \A id \in 1..Len(db) :
          /\ db[id].status = APPROVED => db[id].approvedAt.set
          /\ db[id].status = PENDING => ~db[id].approvedAt.set

\* C22 witness: approveSpark has just approved one spark while another is still
\* pending.
C22_Witness ==
    /\ reply.op = "approveSpark"
    /\ reply.code # "throws"
    /\ Len(db) = 2
    /\ db[reply.sparks[1]].status = APPROVED
    /\ \E id \in 1..Len(db) : db[id].status = PENDING

\* C23: after rejectSpark(id) the spark is rejected and is in neither findMany
\* selection, and no result of getPendingSparks, getApprovedSparks or the public
\* route holds a rejected spark.
C23_RejectedNowhere ==
    /\ (reply.op = "rejectSpark" /\ reply.code # "throws") =>
          /\ db[reply.sparks[1]].status = REJECTED
          /\ reply.sparks[1] \notin FindMany(PENDING)
          /\ reply.sparks[1] \notin FindMany(APPROVED)
    /\ (reply.op = "getPendingSparks" \/ IsPublicResult) =>
          \A id \in Range(reply.sparks) : db[id].status # REJECTED

\* C23 witness: the pending queue is returned with one spark while the other
\* spark of the table, never approved, has been rejected.
C23_Witness ==
    /\ reply.op = "getPendingSparks"
    /\ Len(db) = 2
    /\ Len(reply.sparks) = 1
    /\ \E id \in 1..Len(db) : db[id].status = REJECTED /\ ~db[id].approvedAt.set

\* C24: a POST /api/sparks whose text is empty or blank is answered 400
\* VALIDATION_ERROR and makes no spark.
C24_BlankTextIs400 ==
    (reply.op = "POST /api/sparks" /\ reply.text \in {"", " "}) =>
        /\ reply.status = 400
        /\ reply.code = "VALIDATION_ERROR"
        /\ reply.sparks = <<>>

\* A response of one of the two admin moderation routes.
IsAdminReply(r) ==
    r.op \in {"POST /api/admin/sparks/[id]/approve", "POST /api/admin/sparks/[id]/reject"}

\* The request named an id that no row has.
NamesNoRow(r) == r.request.id # NoId /\ r.request.id > Len(db)

\* C25 as stated: an admin request without a session is answered 401 AUTH_ERROR,
\* one for an id without a row is answered 404 NOT_FOUND (a session being
\* understood), and neither changes the table.
C25_NotFoundWhateverTheOrigin ==
    [][IsAdminReply(reply') =>
          /\ ~reply'.request.session =>
                reply'.status = 401 /\ reply'.code = "AUTH_ERROR" /\ db' = db
          /\ (reply'.request.session /\ NamesNoRow(reply')) =>
                reply'.status = 404 /\ reply'.code = "NOT_FOUND" /\ db' = db]_vars

\* C25: an admin request without a session is answered 401 AUTH_ERROR and changes
\* no row; one with a session, an acceptable origin and an id without a row is
\* answered 404 NOT_FOUND when the database answers, and changes no row; with a
\* session and a foreign origin the answer is 403 CSRF_ERROR whatever the id.
C25_AdminGuards ==
    [][IsAdminReply(reply') =>
          /\ ~reply'.request.session =>
                reply'.status = 401 /\ reply'.code = "AUTH_ERROR" /\ db' = db
          /\ (reply'.request.session /\ ~reply'.request.originOk) =>
                reply'.status = 403 /\ reply'.code = "CSRF_ERROR" /\ db' = db
          /\ (/\ reply'.request.session
              /\ reply'.request.originOk
              /\ ~reply'.request.fails
              /\ NamesNoRow(reply')) =>
                reply'.status = 404 /\ reply'.code = "NOT_FOUND" /\ db' = db]_vars

\* C25 witness: an approve request with a session and an acceptable origin names
\* an id without a row and is answered 404 while a pending spark waits.
C25_Witness ==
    /\ reply.op = "POST /api/admin/sparks/[id]/approve"
    /\ reply.request.session
    /\ reply.request.originOk
    /\ reply.request.id = 2
    /\ reply.status = 404
    /\ Len(db) = 1
    /\ db[1].status = PENDING

\* C27: once a pointer-up has been handled, a spark selection was emitted only
\* if the spark picker recorded the pointer-down of this interaction and the
\* release lies within the threshold of it, and likewise a globe click for the
\* sphere picker.
C27_SessionPerInteraction ==
    (lastUp.seen /\ ~pointer.isDown) =>
        /\ sparkClicks # <<>> =>
              "sparks" \in pointer.on /\ ~IsDrag(pointer.pos, lastUp.pos)
        /\ globeClicks # <<>> =>
              "sphere" \in pointer.on /\ ~IsDrag(pointer.pos, lastUp.pos)

\* C28: however the steps of concurrent POST /api/sparks handlers interleave
\* within one window, at most MaxRequests handlers of an IP pass the check, every
\* pass is counted in the store before another handler runs, and each spark made
\* for the IP, like each handler still running, has used one pass.
C28_AtMostFivePass ==
    \A ip \in Ips :
        /\ passes[ip] <= MaxRequests
        /\ passes[ip] = (IF store[ip].present THEN store[ip].count ELSE 0)
        /\ createdBy[ip] + inflight[ip] <= passes[ip]

\* C28 witness: five handlers of one IP have passed, two of them are still
\* running, a spark has been made, and a sixth request has just been refused.
C28_Witness ==
    \E ip \in Ips :
        /\ passes[ip] = MaxRequests
        /\ inflight[ip] = 2
        /\ createdBy[ip] >= 1
        /\ reply.op = "POST /api/sparks"
        /\ reply.status = 429

\* C26: after a click outside an open card that lands on no spark (on the globe
\* sphere under the overlay, or beside the globe), neither the card nor the form
\* is displayed.
C26_ClickOutsideShowsGlobe ==
    (lastHome.op = "clickOutside" /\ lastHome.target # "spark") =>
        ~CardDisplayed /\ ~FormDisplayed

\* C29: once the card has been closed or replaced by the form, selectedSpark is
\* null until a spark is clicked again, and selectedSpark is never set while the
\* form is shown.
C29_NoCardComesBack ==
    /\ closed => selectedSpark = NoSpark
    /\ ~(selectedSpark # NoSpark /\ showForm)

\* C30: a spark whose latest action succeeded is not in the displayed list, and
\* a spark whose latest action failed is in it.
C30_RollbackOnlyOwnSpark ==
    \A id \in ListedIds :
        /\ actions[id].state = "succeeded" => id \notin adminSparks
        /\ actions[id].state = "failed" => id \in adminSparks

====
